---- MODULE Spec2Model ----
(***************************************************************************)
(* Machine of Worlds: the progression/economy engine (resources, upgrades, *)
(* worlds, achievements) and the save-state subsystem (validation, backup  *)
(* rotation, recovery), modelled from src/js/*.js.                         *)
(*                                                                         *)
(* Every handler of Game.js is one action; the calls it makes into the     *)
(* systems are operators on the in-memory state record and on the model of *)
(* localStorage.  Numbers that the code computes in floating point are     *)
(* computed here as exact fractions and floored where the code floors.     *)
(***************************************************************************)
EXTENDS Integers, Naturals, Sequences, FiniteSets, TLC

VARIABLES
    state,        \* GameState.state, the in-memory game state
    save,         \* localStorage item 'machineOfWorldsSave'
    backupIndex,  \* localStorage item 'machineOfWorldsBackups'
    backupSlots,  \* localStorage items 'machineOfWorldsBackup_<timestamp>'
    now,          \* Date.now()
    pc,           \* where the page is: constructed, running or hung; or what
                  \* validateSaveData returned: accepted or rejected
    autoSaveTimer, \* Game.autoSaveTimer, the id setInterval returned
    intervals     \* the interval timers of the page that are not cleared

vars ==
    <<state, save, backupIndex, backupSlots, now, pc, autoSaveTimer, intervals>>

----------------------------------------------------------------------------
(* Bounds of the model *)

\* manual clicks counted by state.totalClicks
MaxClicks == 14
\* last value of the clock
MaxTime == 2

\* the backup index is this long at most when loadGame appends to it
MaxIndex == 4

----------------------------------------------------------------------------
(* Static catalogs *)

Resources ==
    {"heat", "fuel", "pressure", "energy", "stability", "water", "oxygen",
     "stone", "magma", "ice", "crystal", "voidEnergy"}

CappedResources == {"heat", "fuel", "pressure", "energy", "stability"}

ValidatedResources == {"heat", "fuel", "pressure", "energy", "stability"}

BasicUpgrades == {"heatGenerator", "fuelEfficiency"}

CrossUpgrades ==
    {"thermalAccelerator", "fuelSynchronizer", "pressureValve", "energyMatrix"}

Upgrades == BasicUpgrades \cup CrossUpgrades

Zero == [r \in Resources |-> 0]

defaultUpgrades ==
    [heatGenerator      |-> [level |-> 0, maxLevel |-> 10, unlocked |-> TRUE],
     fuelEfficiency     |-> [level |-> 0, maxLevel |-> 10, unlocked |-> TRUE],
     thermalAccelerator |-> [level |-> 0, maxLevel |-> 5, unlocked |-> FALSE],
     fuelSynchronizer   |-> [level |-> 0, maxLevel |-> 5, unlocked |-> FALSE],
     pressureValve      |-> [level |-> 0, maxLevel |-> 5, unlocked |-> FALSE],
     energyMatrix       |-> [level |-> 0, maxLevel |-> 5, unlocked |-> FALSE]]

baseCost ==
    [heatGenerator |-> 10, fuelEfficiency |-> 15, thermalAccelerator |-> 25,
     fuelSynchronizer |-> 30, pressureValve |-> 35, energyMatrix |-> 40]

\* the buttons of the upgrade page: the upgrade and the resource that pays
BasicButtons == {<<"heatGenerator", "heat">>, <<"fuelEfficiency", "fuel">>}

CrossButtons ==
    {<<"thermalAccelerator", "heat">>, <<"fuelSynchronizer", "fuel">>,
     <<"pressureValve", "stability">>, <<"energyMatrix", "heat">>}

WorldIds == 0 .. 7

\* unlockRequirements, resourceGeneration (base, multiplier in tenths) and
\* the properties the generation formula reads
worldDefinitions ==
    [w \in WorldIds |->
        CASE w = 0 -> [req |-> <<>>,
                       gen |-> [heat |-> <<12, 15>>, fuel |-> <<8, 10>>],
                       temperature |-> 45, atmosphere |-> 20]
          [] w = 1 -> [req |-> [heat |-> 50, fuel |-> 25],
                       gen |-> [water |-> <<10, 18>>, fuel |-> <<12, 12>>,
                                heat |-> <<6, 8>>],
                       temperature |-> 15, atmosphere |-> 80]
          [] w = 2 -> [req |-> [heat |-> 25, fuel |-> 25, water |-> 30],
                       gen |-> [oxygen |-> <<8, 20>>, heat |-> <<10, 13>>,
                                water |-> <<8, 14>>, fuel |-> <<6, 9>>],
                       temperature |-> 22, atmosphere |-> 95]
          [] w = 3 -> [req |-> [heat |-> 25, fuel |-> 25, water |-> 25,
                                oxygen |-> 20],
                       gen |-> [stone |-> <<6, 22>>, heat |-> <<8, 14>>,
                                fuel |-> <<5, 11>>, oxygen |-> <<4, 7>>],
                       temperature |-> 5, atmosphere |-> 45]
          [] w = 4 -> [req |-> [heat |-> 50, fuel |-> 25, water |-> 25,
                                oxygen |-> 20, stone |-> 30],
                       gen |-> [magma |-> <<5, 25>>, heat |-> <<18, 20>>,
                                stone |-> <<8, 13>>, water |-> <<2, 3>>],
                       temperature |-> 85, atmosphere |-> 25]
          [] w = 5 -> [req |-> [heat |-> 25, fuel |-> 25, water |-> 40,
                                oxygen |-> 20, stone |-> 25, magma |-> 20],
                       gen |-> [ice |-> <<7, 23>>, water |-> <<12, 18>>,
                                oxygen |-> <<6, 12>>, heat |-> <<3, 4>>,
                                magma |-> <<1, 2>>],
                       temperature |-> -35, atmosphere |-> 55]
          [] w = 6 -> [req |-> [heat |-> 30, fuel |-> 30, water |-> 30,
                                oxygen |-> 25, stone |-> 30, magma |-> 20,
                                ice |-> 25],
                       gen |-> [crystal |-> <<4, 30>>, stone |-> <<10, 16>>,
                                ice |-> <<8, 14>>, oxygen |-> <<6, 11>>],
                       temperature |-> 18, atmosphere |-> 40]
          [] w = 7 -> [req |-> [heat |-> 40, fuel |-> 40, water |-> 35,
                                oxygen |-> 30, stone |-> 35, magma |-> 25,
                                ice |-> 30, crystal |-> 20],
                       gen |-> [voidEnergy |-> <<2, 40>>,
                                crystal |-> <<6, 13>>, heat |-> <<4, 12>>,
                                fuel |-> <<4, 12>>, water |-> <<4, 12>>,
                                oxygen |-> <<4, 12>>, stone |-> <<4, 12>>,
                                magma |-> <<4, 12>>, ice |-> <<4, 12>>],
                       temperature |-> 0, atmosphere |-> 0]]

\* state.currentWorld: a catalog world (the catalog has no specialEffects; a
\* loaded save can carry one) or null
World(w) == [id |-> w, special |-> "none"]

NoWorld == [id |-> -1, special |-> "none"]

----------------------------------------------------------------------------
(* Sequences *)

Range(s) == {s[i] : i \in DOMAIN s}

Includes(s, x) == x \in Range(s)

----------------------------------------------------------------------------
(* The state object built by the constructor.  Multipliers are held in      *)
(* hundredths.  unlocks is "undefined" until a load creates the object;     *)
(* tracking is FALSE until initializeAchievementTracking has created the    *)
(* telemetry fields.  The telemetry that no code path ever updates          *)
(* (totalResets, synergyActivations, streaks, recentActions, maintenance,   *)
(* capHits, featureUsage, pageVisits, tierWorldCounts) stays at its         *)
(* initial value and is not carried; playtime stays far below the first     *)
(* playtime threshold of one day.  conversions holds the one counter the    *)
(* code names, pressure_to_heat, 0 standing for the absent key as in        *)
(* conversions[key] || 0.  secretCodes is the set of codes of               *)
(* state.secretCodes, a key no code writes and only a loaded save brings:   *)
(* the empty set stands for the key being absent.  achievementBonuses is    *)
(* undefined (stored is FALSE) until applyAchievementBonuses has stored a   *)
(* table, and a key that is undefined is left out of a snapshot.            *)

GameState ==
    [worldsCreated      |-> 0,
     worldHistory       |-> <<>>,
     resources          |-> Zero,
     upgrades           |-> defaultUpgrades,
     currentWorld       |-> NoWorld,
     unlockedWorlds     |-> <<0>>,
     worldProgress      |-> 0,
     activeEvents       |-> <<>>,
     permanentBonuses   |-> [resourceEfficiency |-> 100,
                             upgradeCostReduction |-> 100],
     unlocks            |-> "undefined",
     achievements       |-> [unlocked |-> <<>>],
     achievementBonuses |-> [stored |-> FALSE, table |-> <<>>],
     settings           |-> [autoSaveInterval |-> 30],
     tracking           |-> FALSE,
     totalClicks        |-> 0,
     manualGeneration   |-> Zero,
     discoveries        |-> {},
     conversions        |-> [pressure_to_heat |-> 0],
     secretCodes        |-> {}]

----------------------------------------------------------------------------
(* JSON.  A parsed value is tagged with what typeof, isFinite and           *)
(* Array.isArray see of it: a finite integer, a finite non-integer, an      *)
(* infinity (JSON.parse("1e999")), a string, null, an array, an object, or  *)
(* undefined for a key that is absent.                                      *)

Num(n) == [t |-> "num", n |-> n]
Frac == [t |-> "frac", n |-> 0]
NegFrac == [t |-> "frac", n |-> -1]
Inf == [t |-> "inf", n |-> 0]
Str == [t |-> "str", n |-> 0]
Null == [t |-> "null", n |-> 0]
Undef == [t |-> "undef", n |-> 0]

\* typeof v === 'number'
IsNumber(v) == v.t \in {"num", "frac", "inf"}

\* v < 0, for a number
IsNegative(v) == v.t \in {"num", "frac"} /\ v.n < 0

\* isFinite(v)
IsFinite(v) == v.t \in {"num", "frac"}

\* Number.isInteger(v)
IsInteger(v) == v.t = "num"

\* the number a loaded value holds; the saves that are loaded carry
\* integers, the other tags are inputs of the validator only
NumOf(v) == IF v.t = "num" THEN v.n ELSE 0

\* the keys of the state object, in the groups the merge treats alike
RequiredKeys == {"worldsCreated", "resources", "upgrades"}

TopKeys == RequiredKeys \cup {"worldHistory", "game", "unlocks", "tracking"}

\* JSON.parse(JSON.stringify(st)): the snapshot of a state
Stringify(st) ==
    [top |-> "object",
     has |-> (TopKeys \ (IF st.unlocks = "undefined" THEN {"unlocks"} ELSE {}))
             \ (IF st.tracking THEN {} ELSE {"tracking"}),
     worldsCreated |-> Num(st.worldsCreated),
     resources |-> [t |-> "object",
                    vals |-> [r \in Resources |-> Num(st.resources[r])]],
     upgrades |-> [t |-> "object",
                   ups |-> [u \in Upgrades |->
                       [t |-> "object",
                        level |-> Num(st.upgrades[u].level),
                        maxLevel |-> Num(st.upgrades[u].maxLevel),
                        unlocked |-> st.upgrades[u].unlocked]]],
     worldHistory |-> [t |-> "array", items |-> st.worldHistory],
     game |-> [currentWorld |-> st.currentWorld,
               unlockedWorlds |-> st.unlockedWorlds,
               worldProgress |-> st.worldProgress,
               activeEvents |-> st.activeEvents,
               permanentBonuses |-> st.permanentBonuses,
               achievements |-> st.achievements,
               achievementBonuses |-> st.achievementBonuses,
               settings |-> st.settings],
     unlocks |-> st.unlocks,
     tracking |-> [totalClicks |-> st.totalClicks,
                   manualGeneration |-> st.manualGeneration,
                   discoveries |-> st.discoveries,
                   conversions |-> st.conversions],
     secretCodes |-> st.secretCodes]

\* an item of localStorage: absent, text that JSON.parse rejects, or JSON
NoItem == [kind |-> "none"]

Garbage == [kind |-> "garbage"]

Json(data) == [kind |-> "json", data |-> data]

----------------------------------------------------------------------------
(* GameState.validateSaveData *)

validateSaveData(data) ==
    /\ data.top \in {"object", "array"}
    /\ RequiredKeys \subseteq data.has
    /\ IsNumber(data.worldsCreated) /\ ~IsNegative(data.worldsCreated)
    /\ data.resources.t \in {"object", "array"}
    /\ \A r \in ValidatedResources :
          LET value == data.resources.vals[r] IN
          value.t # "undef" =>
              IsNumber(value) /\ ~IsNegative(value) /\ IsFinite(value)
    /\ data.upgrades.t \in {"object", "array"}
    /\ \A u \in Upgrades :
          LET upgrade == data.upgrades.ups[u] IN
          (upgrade.t \in {"object", "array"} /\ upgrade.level.t # "undef") =>
              /\ IsNumber(upgrade.level)
              /\ ~IsNegative(upgrade.level)
              /\ IsFinite(upgrade.level)
    /\ ~(data.worldHistory.t \in {"object", "str", "num"})

----------------------------------------------------------------------------
(* localStorage.  A store is the record of the three kinds of item; the     *)
(* backup index is absent, unparseable, JSON that is no array, or the list  *)
(* of its entries, each entry standing for {key, timestamp, date} of one    *)
(* timestamp.  A handler runs under one storage condition: no write fails,  *)
(* the write of a backup slot fails, the write of the save key fails,       *)
(* every write fails, or the writes that add to what is stored fail (the    *)
(* quota is reached: a new backup slot and the new snapshot are refused,    *)
(* a stored backup written over the save key is not).                       *)

Times == 0 .. MaxTime

Failures == {"none", "backup", "save", "all", "growing"}

NoIndex == [kind |-> "none", list |-> <<>>]

IndexOf(list) == [kind |-> "array", list |-> list]

EmptySlots == [t \in Times |-> NoItem]

EmptyStore == [save |-> NoItem, index |-> NoIndex, slots |-> EmptySlots]

\* GameState.getBackupList: the entries, or [] when the index is absent or
\* unparseable; JSON of another type is returned as it is
getBackupList(s) ==
    IF s.index.kind = "array" THEN s.index.list ELSE <<>>

\* the value getBackupList returns has no push, sort or length
NotAList(s) == s.index.kind = "object"

\* Array.prototype.sort with (a, b) => b.timestamp - a.timestamp
RECURSIVE SortDescending(_)
SortDescending(list) ==
    IF list = <<>> THEN <<>>
    ELSE LET newest == CHOOSE i \in DOMAIN list :
                           /\ \A j \in DOMAIN list : list[j] <= list[i]
                           /\ \A j \in 1 .. (i - 1) : list[j] < list[i]
             others == [j \in 1 .. (Len(list) - 1) |->
                           IF j < newest THEN list[j] ELSE list[j + 1]]
         IN  <<list[newest]>> \o SortDescending(others)

\* GameState.createBackup at time t
createBackup(s, t, fail) ==
    IF s.save.kind = "none" \/ fail \in {"backup", "all", "growing"} THEN s
    ELSE IF NotAList(s) THEN [s EXCEPT !.slots[t] = s.save]
    ELSE [s EXCEPT !.slots[t] = s.save,
                   !.index = IndexOf(Append(getBackupList(s), t))]

\* the backups cleanupOldBackups keeps
maxBackups == 3

\* a cleanup that removes nothing
keepEveryBackup(s, fail) == s

\* GameState.cleanupOldBackups
cleanupOldBackups(s, fail) ==
    LET backups == SortDescending(getBackupList(s))
        backupsToRemove == SubSeq(backups, maxBackups + 1, Len(backups))
        keepBackups == SubSeq(backups, 1, maxBackups)
        removed == [t \in Times |->
                       IF Includes(backupsToRemove, t) THEN NoItem
                       ELSE s.slots[t]]
    IN  IF NotAList(s) \/ Len(backups) <= maxBackups THEN s
        ELSE IF fail = "all" THEN [s EXCEPT !.slots = removed]
        ELSE [s EXCEPT !.slots = removed, !.index = IndexOf(keepBackups)]

\* GameState.restoreFromBackup: the store it leaves and what it returns
restoreFromBackup(s, fail) ==
    LET backups == SortDescending(getBackupList(s))
        backupData == s.slots[backups[1]]
    IN  IF NotAList(s) \/ backups = <<>> THEN [store |-> s, ok |-> FALSE]
        ELSE IF backupData.kind # "json" THEN [store |-> s, ok |-> FALSE]
        ELSE IF ~validateSaveData(backupData.data)
             THEN [store |-> s, ok |-> FALSE]
        ELSE IF fail = "all" THEN [store |-> s, ok |-> FALSE]
        ELSE [store |-> [s EXCEPT !.save = backupData], ok |-> TRUE]

\* GameState.restoreFromSpecificBackup(timestamp) at time t: the slot is
\* read and validated, the stored save is backed up, the save key is
\* written; no cleanup of the index follows
restoreFromSpecificBackup(s, t, timestamp, fail) ==
    LET backupData == s.slots[timestamp]
        backedUp == createBackup(s, t, fail)
    IN  IF backupData.kind # "json" THEN [store |-> s, ok |-> FALSE]
        ELSE IF ~validateSaveData(backupData.data)
        THEN [store |-> s, ok |-> FALSE]
        ELSE IF fail \in {"save", "all"}
        THEN [store |-> backedUp, ok |-> FALSE]
        ELSE [store |-> [backedUp EXCEPT !.save = backupData], ok |-> TRUE]

\* a save whose write never throws
saveGameNeverThrows(st, s, t, fail) ==
    [store |-> cleanupOldBackups(
                   [createBackup(s, t, fail) EXCEPT
                       !.save = Json(Stringify(st))], fail),
     threw |-> FALSE]

\* GameState.saveGame at time t: the store it leaves and whether it throws
saveGame(st, s, t, fail) ==
    LET backedUp == createBackup(s, t, fail)
        written == [backedUp EXCEPT !.save = Json(Stringify(st))]
    IN  IF fail \in {"save", "all", "growing"}
        THEN [store |-> restoreFromBackup(backedUp, fail).store,
              threw |-> TRUE]
        ELSE [store |-> cleanupOldBackups(written, fail), threw |-> FALSE]

----------------------------------------------------------------------------
(* Loading *)

\* the merge of loadGame and importSave: { ...state, ...parsedData } with
\* upgrades, resources, permanentBonuses, unlocks, achievements and settings
\* spread one level deeper, currentWorld: parsed || current and
\* worldHistory: parsed || []
MergeSave(st, data) ==
    LET hasGame == "game" \in data.has
        hasTracking == "tracking" \in data.has
        entry(u) == data.upgrades.ups[u]
    IN  [worldsCreated |-> NumOf(data.worldsCreated),
         worldHistory |->
             IF "worldHistory" \in data.has /\ data.worldHistory.t = "array"
             THEN data.worldHistory.items ELSE <<>>,
         resources |->
             [r \in Resources |->
                 IF data.resources.vals[r].t = "undef" THEN st.resources[r]
                 ELSE NumOf(data.resources.vals[r])],
         upgrades |->
             [u \in Upgrades |->
                 IF entry(u).t = "undef" THEN st.upgrades[u]
                 ELSE [level |-> entry(u).level, maxLevel |-> entry(u).maxLevel,
                       unlocked |-> entry(u).unlocked]],
         currentWorld |->
             IF hasGame /\ data.game.currentWorld # NoWorld
             THEN data.game.currentWorld ELSE st.currentWorld,
         unlockedWorlds |->
             IF hasGame THEN data.game.unlockedWorlds ELSE st.unlockedWorlds,
         worldProgress |->
             IF hasGame THEN data.game.worldProgress ELSE st.worldProgress,
         activeEvents |->
             IF hasGame THEN data.game.activeEvents ELSE st.activeEvents,
         permanentBonuses |->
             IF hasGame THEN data.game.permanentBonuses
             ELSE st.permanentBonuses,
         unlocks |->
             IF st.unlocks = "unlocked" THEN "unlocked"
             ELSE IF "unlocks" \in data.has THEN data.unlocks
             ELSE "locked",
         achievements |->
             IF hasGame THEN data.game.achievements ELSE st.achievements,
         achievementBonuses |->
             IF hasGame /\ data.game.achievementBonuses.stored
             THEN data.game.achievementBonuses
             ELSE st.achievementBonuses,
         settings |-> IF hasGame THEN data.game.settings ELSE st.settings,
         tracking |-> hasTracking \/ st.tracking,
         totalClicks |->
             IF hasTracking THEN data.tracking.totalClicks ELSE st.totalClicks,
         manualGeneration |->
             IF hasTracking THEN data.tracking.manualGeneration
             ELSE st.manualGeneration,
         discoveries |->
             IF hasTracking THEN data.tracking.discoveries
             ELSE st.discoveries,
         conversions |->
             IF hasTracking THEN data.tracking.conversions
             ELSE st.conversions,
         secretCodes |->
             IF data.secretCodes # {} THEN data.secretCodes
             ELSE st.secretCodes]

\* the history migration of validateAndFixState pushes worldsCreated
\* placeholders, one per turn of for (i = 1; i <= worldsCreated; i++): with
\* worldsCreated = Infinity the loop has no last turn
MigrationDiverges(data) ==
    /\ data.worldsCreated.t = "inf"
    /\ ~("worldHistory" \in data.has /\ data.worldHistory.t = "array"
         /\ data.worldHistory.items # <<>>)

Placeholder(i) == [id |-> i, placeholder |-> TRUE]

\* GameState.validateAndFixState on the merged state: the history migration
\* and { ...defaultUpgrade, ...upgrade } for every upgrade
validateAndFixState(merged) ==
    LET fixed(u) ==
            [level |-> IF merged.upgrades[u].level.t = "undef"
                       THEN defaultUpgrades[u].level
                       ELSE NumOf(merged.upgrades[u].level),
             maxLevel |-> IF merged.upgrades[u].maxLevel.t = "undef"
                          THEN defaultUpgrades[u].maxLevel
                          ELSE NumOf(merged.upgrades[u].maxLevel),
             unlocked |-> merged.upgrades[u].unlocked]
    IN  [merged EXCEPT
            !.worldHistory =
                IF merged.worldHistory = <<>> /\ merged.worldsCreated > 0
                THEN [i \in 1 .. merged.worldsCreated |-> Placeholder(i)]
                ELSE merged.worldHistory,
            !.upgrades = [u \in Upgrades |-> fixed(u)]]

\* the state as the merge sees it: the upgrades of the running game with
\* their fields as parsed values
Raw(st) ==
    [st EXCEPT !.upgrades =
        [u \in Upgrades |->
            [level |-> Num(st.upgrades[u].level),
             maxLevel |-> Num(st.upgrades[u].maxLevel),
             unlocked |-> st.upgrades[u].unlocked]]]

\* the nested loadGame calls that are followed
MaxDepth == 4

\* GameState.loadGame at time t: the state and the store it leaves and how
\* it ends: "true", "false", "diverges" when the migration loop never ends
RECURSIVE loadGame(_, _, _, _, _)
loadGame(st, s, t, fail, depth) ==
    LET failed == [state |-> st, store |-> s, result |-> "false"]
        restored == restoreFromBackup(s, fail)
        retry == IF restored.ok
                 THEN loadGame(st, restored.store, t, fail, depth + 1)
                 ELSE failed
        backedUp == createBackup(s, t, fail)
    IN  IF depth > MaxDepth
        THEN [state |-> st, store |-> s, result |-> "overflow"]
        ELSE IF s.save.kind = "none" THEN failed
        ELSE IF s.save.kind = "garbage" THEN retry
        ELSE IF ~validateSaveData(s.save.data) THEN retry
        ELSE IF MigrationDiverges(s.save.data)
        THEN [state |-> st, store |-> backedUp, result |-> "diverges"]
        ELSE [state |-> validateAndFixState(MergeSave(Raw(st), s.save.data)),
              store |-> backedUp, result |-> "true"]

----------------------------------------------------------------------------
(* Resources and worlds *)

pressureCap == 100
energyCap == 200
stabilityCap == 50

\* the caps of enforceResourceCaps under the current world
Cap(st, r) ==
    LET double == IF st.currentWorld.special = "noResourceLimits"
                  THEN 2 ELSE 1
    IN  CASE r = "pressure" -> double * pressureCap
          [] r = "energy" -> double * energyCap
          [] r = "stability" -> double * stabilityCap

\* GameState.enforceResourceCaps: heat, fuel, pressure, energy and
\* stability are clamped, the other resources are not looked at
enforceResourceCaps(st) ==
    [st EXCEPT !.resources =
        [r \in Resources |->
            LET amount == st.resources[r] IN
            IF r \notin CappedResources THEN amount
            ELSE IF r \in {"pressure", "energy", "stability"}
                    /\ amount > Cap(st, r) THEN Cap(st, r)
            ELSE IF amount < 0 THEN 0
            ELSE amount]]

\* WorldSystem.canUnlockWorld
canUnlockWorld(st, w) ==
    \A r \in DOMAIN worldDefinitions[w].req :
        ~(st.resources[r] < worldDefinitions[w].req[r])

\* an unlock check that unlocks every world whose requirements are met
RECURSIVE unlockEveryWorld(_)
unlockEveryWorld(st) ==
    LET open == {w \in WorldIds :
                    ~Includes(st.unlockedWorlds, w) /\ canUnlockWorld(st, w)}
    IN  IF open = {} THEN st
        ELSE LET first == CHOOSE w \in open : \A v \in open : w <= v
             IN  unlockEveryWorld(
                     [st EXCEPT !.unlockedWorlds = Append(@, first)])

\* WorldSystem.checkWorldUnlocks: the first locked world whose
\* requirements are met is unlocked, and no other
checkWorldUnlocks(st) ==
    LET open == {w \in WorldIds :
                    ~Includes(st.unlockedWorlds, w) /\ canUnlockWorld(st, w)}
    IN  IF open = {} THEN st
        ELSE LET first == CHOOSE w \in open : \A v \in open : w <= v
             IN  [st EXCEPT !.unlockedWorlds = Append(@, first)]

\* a selection that deducts the requirement every time
selectWorldCharges(st, w) ==
    IF w \notin WorldIds \/ ~Includes(st.unlockedWorlds, w)
    THEN [state |-> st, ok |-> FALSE]
    ELSE LET cost == worldDefinitions[w].req
         IN  [state |->
                  [st EXCEPT
                      !.resources =
                          [r \in Resources |->
                              IF r \in DOMAIN cost
                              THEN st.resources[r] - cost[r]
                              ELSE st.resources[r]],
                      !.worldProgress = w,
                      !.worldsCreated = @ + 1,
                      !.currentWorld = World(w)],
              ok |-> TRUE]

\* WorldSystem.selectWorld: the state it leaves and what it returns
selectWorld(st, w) ==
    IF w \notin WorldIds \/ ~Includes(st.unlockedWorlds, w)
    THEN [state |-> st, ok |-> FALSE]
    ELSE LET cost == worldDefinitions[w].req
             paid == IF st.worldProgress < w
                     THEN [st EXCEPT
                              !.resources =
                                  [r \in Resources |->
                                      IF r \in DOMAIN cost
                                      THEN st.resources[r] - cost[r]
                                      ELSE st.resources[r]],
                              !.worldProgress = w,
                              !.worldsCreated = @ + 1]
                     ELSE st
         IN  [state |-> [paid EXCEPT !.currentWorld = World(w)], ok |-> TRUE]

\* WorldSystem.getNextUnlockableWorld: the first world that is not unlocked,
\* -1 when all are
getNextUnlockableWorld(st) ==
    LET locked == {w \in WorldIds : ~Includes(st.unlockedWorlds, w)}
    IN  IF locked = {} THEN -1
        ELSE CHOOSE w \in locked : \A v \in locked : w <= v

\* the factor of the active events on a generated amount, as a fraction:
\* ResourceSystem.applyEventMultipliers
RECURSIVE applyEventMultipliers(_, _)
applyEventMultipliers(events, type) ==
    IF events = <<>> THEN <<1, 1>>
    ELSE LET rest == applyEventMultipliers(Tail(events), type)
             effect == Head(events).effect
             factor ==
                 CASE effect = "heatBoost" /\ type = "heat" -> <<125, 100>>
                   [] effect = "fuelBoost" /\ type = "fuel" -> <<125, 100>>
                   [] effect = "allResourceBoost" -> <<115, 100>>
                   [] effect = "overclock" -> <<2, 1>>
                   [] OTHER -> <<1, 1>>
         IN  <<factor[1] * rest[1], factor[2] * rest[2]>>

\* the amount one manual generation of type yields on world w:
\* base * multiplier, the temperature and atmosphere effects, 20% per level
\* of the matching basic upgrade, the event factor, the permanent
\* efficiency, floored
GainOf(st, type) ==
    LET world == worldDefinitions[st.currentWorld.id]
        config == world.gen[type]
        climate == IF type = "heat" /\ world.temperature > 50 THEN 120
                   ELSE IF type = "ice" /\ world.temperature < 0 THEN 130
                   ELSE IF type = "water" /\ world.atmosphere > 70 THEN 115
                   ELSE 100
        upgrade == IF type = "heat"
                   THEN 10 + 2 * st.upgrades["heatGenerator"].level
                   ELSE IF type = "fuel"
                   THEN 10 + 2 * st.upgrades["fuelEfficiency"].level
                   ELSE 10
        events == applyEventMultipliers(st.activeEvents, type)
    IN  (config[1] * config[2] * climate * upgrade * events[1]
            * st.permanentBonuses.resourceEfficiency)
        \div (10 * 100 * 10 * events[2] * 100)

\* GameState.addResources without its save: add, clamp, check the unlocks
addResources(st, type, amount) ==
    checkWorldUnlocks(enforceResourceCaps(
        [st EXCEPT !.resources[type] = @ + amount]))

\* EventSystem.updateActiveEvents: every duration is decremented and the
\* events that ran out are dropped
updateActiveEvents(st) ==
    LET aged == [i \in DOMAIN st.activeEvents |->
                    [st.activeEvents[i] EXCEPT !.duration = @ - 1]]
    IN  [st EXCEPT !.activeEvents = SelectSeq(aged, LAMBDA e : e.duration > 0)]

----------------------------------------------------------------------------
(* Upgrades *)

RECURSIVE Power(_, _)
Power(b, e) == IF e <= 0 THEN 1 ELSE b * Power(b, e - 1)

\* the active events that halve the upgrade costs
CheapUpgradeEvents(st) ==
    Len(SelectSeq(st.activeEvents,
                  LAMBDA e : e.effect \in {"cheapUpgrade", "cheapUpgrades"}))

\* a cost that grows by half of the cost before with every level, floored
\* at every level
RECURSIVE getUpgradeCostCompounded(_, _)
getUpgradeCostCompounded(st, u) ==
    IF st.upgrades[u].level <= 0 THEN baseCost[u]
    ELSE (3 * getUpgradeCostCompounded(
                  [st EXCEPT !.upgrades[u].level = @ - 1], u)) \div 2

\* UpgradeSystem.getUpgradeCost:
\* floor(floor(baseCost * 1.5^level) * upgradeCostReduction * 0.5^events)
getUpgradeCost(st, u) ==
    LET level == st.upgrades[u].level
        cost == (baseCost[u] * Power(3, level)) \div Power(2, level)
    IN  (cost * st.permanentBonuses.upgradeCostReduction)
        \div (100 * Power(2, CheapUpgradeEvents(st)))

\* the test both purchase methods make
CanPurchase(st, u, r) ==
    /\ st.resources[r] >= getUpgradeCost(st, u)
    /\ st.upgrades[u].level < st.upgrades[u].maxLevel

\* the deduction and the increment both purchase methods make
Purchased(st, u, r) ==
    [st EXCEPT !.resources[r] = @ - getUpgradeCost(st, u),
               !.upgrades[u].level = @ + 1]

\* UpgradeSystem.upgradeResource: the state it leaves and what it returns
upgradeResource(st, u, r) ==
    IF CanPurchase(st, u, r)
    THEN [state |-> Purchased(st, u, r), result |-> "true"]
    ELSE [state |-> st, result |-> "false"]

\* UpgradeSystem.applyCrossUpgradeEffects reads this.gameState.resources,
\* which no GameState object has, for every upgrade but thermalAccelerator:
\* the read of a property of undefined throws a TypeError
applyCrossUpgradeEffectsThrows(u) == u # "thermalAccelerator"

\* UpgradeSystem.upgradeCrossResource: the state it leaves and how it ends
upgradeCrossResource(st, u, r) ==
    IF CanPurchase(st, u, r)
    THEN [state |-> Purchased(st, u, r),
          result |-> IF applyCrossUpgradeEffectsThrows(u)
                     THEN "throw" ELSE "true"]
    ELSE [state |-> st, result |-> "false"]

\* UpgradeSystem.checkUpgradeUnlocksFixed
checkUpgradeUnlocks(st) ==
    LET level(u) == st.upgrades[u].level
        met(u) ==
            CASE u = "thermalAccelerator" ->
                     level("heatGenerator") >= 3 /\ st.resources["pressure"] >= 30
              [] u = "fuelSynchronizer" ->
                     level("fuelEfficiency") >= 5 /\ st.resources["energy"] >= 20
              [] u = "pressureValve" ->
                     st.resources["stability"] >= 15
                     /\ st.resources["pressure"] >= 50
              [] u = "energyMatrix" ->
                     level("heatGenerator") >= 7 /\ level("fuelEfficiency") >= 8
              [] OTHER -> FALSE
    IN  [st EXCEPT !.upgrades =
            [u \in Upgrades |->
                [st.upgrades[u] EXCEPT !.unlocked = @ \/ met(u)]]]

----------------------------------------------------------------------------
(* Achievements *)

AchievementIds == 1 .. 70

\* the resource thresholds of the 'resource' requirements
ResourceRequirement ==
    [i \in {1, 2, 4, 5, 7, 8, 9, 10, 11, 14, 15, 18, 19, 22, 24, 25, 29, 42, 43}
     |-> CASE i = 1 -> <<"heat", 1>>          [] i = 2 -> <<"fuel", 1>>
           [] i = 4 -> <<"heat", 100>>        [] i = 5 -> <<"fuel", 100>>
           [] i = 7 -> <<"pressure", 50>>     [] i = 8 -> <<"energy", 25>>
           [] i = 9 -> <<"stability", 20>>    [] i = 10 -> <<"heat", 1000>>
           [] i = 11 -> <<"fuel", 500>>       [] i = 14 -> <<"pressure", 100>>
           [] i = 15 -> <<"energy", 100>>     [] i = 18 -> <<"heat", 10000>>
           [] i = 19 -> <<"fuel", 5000>>      [] i = 22 -> <<"stability", 100>>
           [] i = 24 -> <<"heat", 100000>>    [] i = 25 -> <<"fuel", 50000>>
           [] i = 29 -> <<"energy", 1000>>    [] i = 42 -> <<"heat", 1000000>>
           [] i = 43 -> <<"fuel", 1000000>>]

\* the world counts of the 'worlds' requirements
WorldsRequirement ==
    [i \in {6, 13, 17, 21, 27, 41, 44}
     |-> CASE i = 6 -> 1    [] i = 13 -> 5    [] i = 17 -> 25  [] i = 21 -> 25
           [] i = 27 -> 75  [] i = 41 -> 150  [] i = 44 -> 250]

\* the upgrades bought at least once
UpgradeCount(st) == Cardinality({u \in Upgrades : st.upgrades[u].level > 0})

Maxed(st, us) == \A u \in us : st.upgrades[u].level >= st.upgrades[u].maxLevel

RECURSIVE Sum(_, _)
Sum(f, S) ==
    IF S = {} THEN 0
    ELSE LET x == CHOOSE y \in S : TRUE IN f[x] + Sum(f, S \ {x})

Abs(n) == IF n < 0 THEN -n ELSE n

CoreFive == {"heat", "fuel", "pressure", "energy", "stability"}

\* AchievementSystem.checkRequirement for the requirement of achievement i,
\* with unlocked the list as it stands when i is looked at.  Requirements
\* of a type without a case (stat, variety, collection, secret, and the
\* conversion whose type key is written twice) fall to default: false, as
\* do those that read telemetry no code updates.
checkRequirement(i, st, unlocked) ==
    CASE i \in DOMAIN ResourceRequirement ->
             st.resources[ResourceRequirement[i][1]] >= ResourceRequirement[i][2]
      [] i \in DOMAIN WorldsRequirement ->
             st.worldsCreated >= WorldsRequirement[i]
      [] i = 3 -> UpgradeCount(st) >= 1
      [] i = 12 -> UpgradeCount(st) >= 5
      [] i = 20 -> UpgradeCount(st) >= 10
      [] i = 26 -> Maxed(st, BasicUpgrades)
      [] i = 30 -> \A r \in CoreFive : st.resources[r] >= 1000
      [] i = 31 -> Includes(unlocked, 17)
      [] i = 34 -> Sum(st.resources, Resources) >= 1000000
      [] i = 38 -> st.totalClicks >= 1000
      [] i = 40 -> Len(unlocked) >= 25
      [] i = 45 -> st.resources["pressure"] > 40
      [] i = 46 -> \A r \in CoreFive : st.resources[r] >= 100000
      [] i = 47 -> Maxed(st, BasicUpgrades)
      [] i = 50 -> Len(unlocked) >= 69
      [] i = 53 -> /\ st.resources["heat"] # 0
                   /\ st.resources["fuel"] # 0
                   /\ 10 * Abs(3 * st.resources["fuel"] - st.resources["heat"])
                          <= 3 * Abs(st.resources["heat"])
      [] i = 58 -> Cardinality(st.discoveries) >= 5
      [] i = 59 -> st.manualGeneration["heat"] >= 1000
      [] i = 60 -> Cardinality({r \in Resources : st.resources[r] > 0}) >= 5
      [] i = 64 -> UpgradeCount(st) <= 2 /\ st.worldsCreated >= 10
      [] OTHER -> FALSE

\* the hidden achievements and the code of the requirement of each
SecretCode == [i \in {36, 48} |-> IF i = 36 THEN "MACHINE_POWER"
                                             ELSE "WORLD_MACHINE"]

\* AchievementSystem.checkHiddenRequirement for hidden achievement i
checkHiddenRequirement(i, st) == SecretCode[i] \in st.secretCodes

\* AchievementSystem.checkAchievements: one pass over the definitions in
\* ascending id, each id looked at once against the list as it then stands;
\* a hidden achievement whose code is missing is skipped
RECURSIVE CheckFrom(_, _, _)
CheckFrom(i, st, unlocked) ==
    IF i > 70 THEN unlocked
    ELSE IF i \in DOMAIN SecretCode /\ ~checkHiddenRequirement(i, st)
    THEN CheckFrom(i + 1, st, unlocked)
    ELSE IF ~Includes(unlocked, i) /\ checkRequirement(i, st, unlocked)
    THEN CheckFrom(i + 1, st, Append(unlocked, i))
    ELSE CheckFrom(i + 1, st, unlocked)

checkAchievements(st) ==
    [st EXCEPT !.achievements.unlocked = CheckFrom(1, st, @)]

\* the ids one call of checkAchievements returns as newly unlocked
NewAchievements(st) ==
    Range(checkAchievements(st).achievements.unlocked)
        \ Range(st.achievements.unlocked)

\* the bonuses of the table applyAchievementBonuses builds
BonusKinds ==
    {"heatGeneration", "fuelGeneration", "pressureGeneration",
     "energyGeneration", "stabilityGeneration", "upgradeEfficiency",
     "allGeneration", "conversionEfficiency", "manualGeneration",
     "resourceCaps", "worldCreationSpeed", "balancedGeneration",
     "continuousGeneration", "parallelEfficiency"}

\* what applyAchievementBonuses reads out of the reward text of
\* achievement i: the bonus whose name the text includes and the percentage
\* the pattern (\d+)%.*<name> finds before it; "Manual generation x2" adds
\* 100%; a text that names no bonus, or names it before the percentage,
\* adds nothing
Reward(i) ==
    CASE i = 1 -> <<"heatGeneration", 5>>
      [] i = 4 -> <<"heatGeneration", 10>>
      [] i = 10 -> <<"heatGeneration", 20>>
      [] i = 18 -> <<"heatGeneration", 30>>
      [] i = 24 -> <<"heatGeneration", 50>>
      [] i = 42 -> <<"heatGeneration", 100>>
      [] i = 2 -> <<"fuelGeneration", 5>>
      [] i = 5 -> <<"fuelGeneration", 8>>
      [] i = 11 -> <<"fuelGeneration", 15>>
      [] i = 19 -> <<"fuelGeneration", 25>>
      [] i = 25 -> <<"fuelGeneration", 40>>
      [] i = 43 -> <<"fuelGeneration", 100>>
      [] i = 3 -> <<"upgradeEfficiency", 2>>
      [] i = 12 -> <<"upgradeEfficiency", 5>>
      [] i = 20 -> <<"upgradeEfficiency", 10>>
      [] i = 30 -> <<"allGeneration", 25>>
      [] i = 46 -> <<"allGeneration", 75>>
      [] i = 52 -> <<"conversionEfficiency", 50>>
      [] i = 54 -> <<"balancedGeneration", 25>>
      [] i = 56 -> <<"continuousGeneration", 30>>
      [] i = 60 -> <<"parallelEfficiency", 20>>
      [] i = 61 -> <<"resourceCaps", 50>>
      [] i = 59 -> <<"manualGeneration", 100>>
      [] OTHER -> <<"none", 0>>

\* the table applyAchievementBonuses returns for the list of unlocked
\* achievements, in hundredths: every bonus starts at 1.0 and every entry
\* of the list adds its percentage
BonusTable(unlocked) ==
    [kind \in BonusKinds |->
        100 + Sum([j \in DOMAIN unlocked |->
                      IF Reward(unlocked[j])[1] = kind
                      THEN Reward(unlocked[j])[2] ELSE 0],
                  DOMAIN unlocked)]

\* AchievementSystem.applyAchievementBonuses: the table is built from
\* scratch and stored in the state
applyAchievementBonuses(st) ==
    [st EXCEPT !.achievementBonuses =
        [stored |-> TRUE, table |-> BonusTable(st.achievements.unlocked)]]

\* Game.checkAndNotifyAchievements at time t: when the call unlocks
\* something, the bonuses are recomputed from the unlocked list and the
\* game is saved
checkAndNotifyAchievements(st, s, t, fail) ==
    LET checked == checkAchievements(st)
        applied == applyAchievementBonuses(checked)
        saved == saveGame(applied, s, t, fail)
    IN  IF NewAchievements(st) = {}
        THEN [state |-> st, store |-> s, threw |-> FALSE]
        ELSE [state |-> applied, store |-> saved.store, threw |-> saved.threw]

\* Game.updateUI, as far as it changes the state
updateUI(st) == checkUpgradeUnlocks(st)

----------------------------------------------------------------------------
(* The handlers, as operators from the state and the store before to the    *)
(* state and the store after and the way the handler ended: result is what  *)
(* the system call the handler is named after returned ("none" when it      *)
(* returns nothing), threw whether an exception left the handler.           *)

Outcome(st, s, result, threw) ==
    [state |-> st, store |-> s, result |-> result, threw |-> threw]

\* AchievementSystem.incrementClick
incrementClick(st) == [st EXCEPT !.totalClicks = @ + 1]

\* ResourceSystem.generateResource followed by the rest of
\* Game.generateResource
generateResource(st, s, t, type, fail) ==
    LET generates == /\ st.currentWorld.id \in WorldIds
                     /\ type \in DOMAIN worldDefinitions[st.currentWorld.id].gen
        gain == GainOf(st, type)
        added == addResources(st, type, gain)
        saved == saveGame(added, s, t, fail)
        tracked == incrementClick(
                       [added EXCEPT !.manualGeneration[type] = @ + gain,
                                     !.discoveries = @ \cup {type}])
        generated == IF generates THEN tracked ELSE st
        stored == IF generates THEN saved.store ELSE s
        clicked == incrementClick(updateActiveEvents(generated))
        notified == checkAndNotifyAchievements(clicked, stored, t, fail)
    IN  IF generates /\ saved.threw
        THEN Outcome(added, saved.store, "none", TRUE)
        ELSE IF generates /\ ~added.tracking
        THEN Outcome(added, saved.store, "none", TRUE)
        ELSE IF notified.threw
        THEN Outcome(notified.state, notified.store, "none", TRUE)
        ELSE Outcome(updateUI(notified.state), notified.store, "none", FALSE)

heatCost == 10
fuelCost == 15
energyGained == 40

Min(a, b) == IF a < b THEN a ELSE b

\* Game.generateEnergy
generateEnergy(st, s, t, fail) ==
    LET converted ==
            [st EXCEPT !.resources["heat"] = @ - heatCost,
                       !.resources["fuel"] = @ - fuelCost,
                       !.resources["energy"] =
                           Min(energyCap, @ + energyGained)]
        notified ==
            checkAndNotifyAchievements(incrementClick(converted), s, t, fail)
    IN  IF ~(st.resources["heat"] >= heatCost
             /\ st.resources["fuel"] >= fuelCost)
        THEN Outcome(st, s, "false", FALSE)
        ELSE IF notified.threw
        THEN Outcome(notified.state, notified.store, "true", TRUE)
        ELSE Outcome(updateUI(notified.state), notified.store, "true", FALSE)

\* Game.upgradeResource
GameUpgradeResource(st, s, t, u, r, fail) ==
    LET bought == upgradeResource(st, u, r)
        notified == checkAndNotifyAchievements(bought.state, s, t, fail)
    IN  IF bought.result = "false" THEN Outcome(st, s, "false", FALSE)
        ELSE IF notified.threw
        THEN Outcome(notified.state, notified.store, "true", TRUE)
        ELSE Outcome(updateUI(notified.state), notified.store, "true", FALSE)

\* Game.upgradeCrossResource
GameUpgradeCrossResource(st, s, t, u, r, fail) ==
    LET bought == upgradeCrossResource(st, u, r)
        notified == checkAndNotifyAchievements(
                        checkUpgradeUnlocks(bought.state), s, t, fail)
    IN  IF bought.result = "false" THEN Outcome(st, s, "false", FALSE)
        ELSE IF bought.result = "throw"
        THEN Outcome(bought.state, s, "throw", TRUE)
        ELSE IF notified.threw
        THEN Outcome(notified.state, notified.store, "true", TRUE)
        ELSE Outcome(updateUI(notified.state), notified.store, "true", FALSE)

generatorHeat == 100
generatorFuel == 50

\* Game.unlockWorldGenerator: state.unlocks.worldGenerator = true throws a
\* TypeError while state.unlocks is undefined, after the deduction
unlockWorldGenerator(st, s, t, fail) ==
    LET paid == [st EXCEPT !.resources["heat"] = @ - generatorHeat,
                           !.resources["fuel"] = @ - generatorFuel]
        unlocked == updateUI([paid EXCEPT !.unlocks = "unlocked"])
        notified == checkAndNotifyAchievements(unlocked, s, t, fail)
    IN  IF ~(st.resources["heat"] >= generatorHeat
             /\ st.resources["fuel"] >= generatorFuel)
        THEN Outcome(st, s, "false", FALSE)
        ELSE IF st.unlocks = "undefined"
        THEN Outcome(paid, s, "throw", TRUE)
        ELSE Outcome(notified.state, notified.store, "true", notified.threw)

\* ResourceSystem.generateResources without its save: every resource of the
\* world at once, 10% per level of the matching basic upgrade, no events
generateResources(st) ==
    LET world == worldDefinitions[st.currentWorld.id]
        gainOf(type) ==
            LET config == world.gen[type]
                climate ==
                    IF type = "heat" /\ world.temperature > 50 THEN 120
                    ELSE IF type = "ice" /\ world.temperature < 0 THEN 130
                    ELSE IF type = "water" /\ world.atmosphere > 70 THEN 115
                    ELSE 100
                upgrade ==
                    IF type = "heat"
                    THEN 10 + st.upgrades["heatGenerator"].level
                    ELSE IF type = "fuel"
                    THEN 10 + st.upgrades["fuelEfficiency"].level
                    ELSE 10
            IN  (config[1] * config[2] * climate * upgrade
                    * st.permanentBonuses.resourceEfficiency)
                \div (10 * 100 * 10 * 100)
    IN  checkWorldUnlocks(enforceResourceCaps(
            [st EXCEPT !.resources =
                [r \in Resources |->
                    IF r \in DOMAIN world.gen THEN @[r] + gainOf(r)
                    ELSE @[r]]]))

\* Game.createWorld: the next world is by its definition not unlocked, and
\* selectWorld refuses a world that is not unlocked
createWorld(st, s, t, fail) ==
    LET next == getNextUnlockableWorld(st)
        selected == selectWorld(st, next)
        recorded == [selected.state EXCEPT
                        !.worldHistory = Append(@, [id |-> next,
                                                    placeholder |-> FALSE])]
        generated == generateResources(recorded)
        saved == saveGame(generated, s, t, fail)
        unlocked == updateActiveEvents(checkWorldUnlocks(generated))
        notified == checkAndNotifyAchievements(unlocked, saved.store, t, fail)
        final == updateUI(notified.state)
        last == saveGame(final, notified.store, t, fail)
    IN  IF next = -1 THEN Outcome(st, s, "allUnlocked", FALSE)
        ELSE IF ~canUnlockWorld(st, next) THEN Outcome(st, s, "cannot", FALSE)
        ELSE IF ~selected.ok THEN Outcome(st, s, "failed", FALSE)
        ELSE IF saved.threw THEN Outcome(generated, saved.store, "true", TRUE)
        ELSE IF notified.threw
        THEN Outcome(notified.state, notified.store, "true", TRUE)
        ELSE Outcome(final, last.store, "true", last.threw)

\* the effects a choice of an event can carry
EventEffects ==
    {"heatBoost", "fuelBoost", "pressureBoost", "allResourceBoost",
     "solarHarvest", "stabilityProtect", "worldReroll", "stabilityGain",
     "tierUnlock", "energyGain", "cheapUpgrade", "resourceChoice",
     "cheapUpgrades", "permanentEfficiency", "energyCost", "resourceLoss",
     "heatCost", "pressureLoss", "none"}

\* the costs of the choices that avert a loss: "Fix with Energy" and
\* "Emergency Repair"
ChoiceCost == [energyCost |-> [energy |-> 30], heatCost |-> [heat |-> 40]]

\* EventSystem.selectEventChoice: applyEventEffect reads
\* this.gameState.resources, .activeEvents or .permanentBonuses, and the
\* effects that read none of them are followed by
\* this.gameState.eventHistory.push; no GameState object has these
\* properties, so every choice ends in a TypeError before any write
selectEventChoice(st, s, effect) == Outcome(st, s, "throw", TRUE)

\* the callback initAsync hands to setInterval: updatePlaytime, whose
\* playtime no requirement within the bounds reads, then the achievement
\* check and updateUI
tick(st, s, t, fail) ==
    LET notified == checkAndNotifyAchievements(st, s, t, fail)
    IN  IF notified.threw
        THEN Outcome(notified.state, notified.store, "none", TRUE)
        ELSE Outcome(updateUI(notified.state), notified.store, "none", FALSE)

\* Game.saveGame
GameSaveGame(st, s, t, fail) ==
    LET saved == saveGame(st, s, t, fail)
    IN  Outcome(st, saved.store, IF saved.threw THEN "throw" ELSE "ok",
                saved.threw)

\* Game.loadGame
GameLoadGame(st, s, t, fail) ==
    LET loaded == loadGame(st, s, t, fail, 0)
    IN  Outcome(IF loaded.result = "true" THEN updateUI(loaded.state)
                ELSE loaded.state,
                loaded.store, loaded.result, FALSE)

\* Game.resetGame: the save key is removed, the backups stay
resetGame(st, s, confirmed) ==
    IF confirmed
    THEN Outcome(updateUI(GameState), [s EXCEPT !.save = NoItem], "true", FALSE)
    ELSE Outcome(st, s, "false", FALSE)

\* JSON.parse(JSON.stringify(st)): the copy importSave keeps of the state
DeepCopy(st) ==
    LET data == Stringify(st)
    IN  [worldsCreated |-> NumOf(data.worldsCreated),
         worldHistory |-> data.worldHistory.items,
         resources |-> [r \in Resources |-> NumOf(data.resources.vals[r])],
         upgrades |->
             [u \in Upgrades |->
                 [level |-> NumOf(data.upgrades.ups[u].level),
                  maxLevel |-> NumOf(data.upgrades.ups[u].maxLevel),
                  unlocked |-> data.upgrades.ups[u].unlocked]],
         currentWorld |-> data.game.currentWorld,
         unlockedWorlds |-> data.game.unlockedWorlds,
         worldProgress |-> data.game.worldProgress,
         activeEvents |-> data.game.activeEvents,
         permanentBonuses |-> data.game.permanentBonuses,
         unlocks |-> data.unlocks,
         achievements |-> data.game.achievements,
         achievementBonuses |-> data.game.achievementBonuses,
         settings |-> data.game.settings,
         tracking |-> "tracking" \in data.has,
         totalClicks |-> data.tracking.totalClicks,
         manualGeneration |-> data.tracking.manualGeneration,
         discoveries |-> data.tracking.discoveries,
         conversions |-> data.tracking.conversions,
         secretCodes |-> data.secretCodes]

\* an import that keeps the imported state when its save fails
importSaveKeeps(st, s, t, file, fail) ==
    LET imported == updateUI(validateAndFixState(MergeSave(Raw(st), file.data)))
        saved == saveGame(imported, s, t, fail)
    IN  IF file.kind # "json" THEN Outcome(st, s, "rejected", FALSE)
        ELSE IF ~validateSaveData(file.data)
        THEN Outcome(st, s, "rejected", FALSE)
        ELSE Outcome(imported, saved.store, "imported", FALSE)

\* Game.importSave with the text of the file: a rejected file changes
\* nothing; a failed save of the imported state puts the copy of the state
\* back
importSave(st, s, t, file, fail) ==
    LET imported == updateUI(validateAndFixState(MergeSave(Raw(st), file.data)))
        saved == saveGame(imported, s, t, fail)
    IN  IF file.kind # "json" THEN Outcome(st, s, "rejected", FALSE)
        ELSE IF ~validateSaveData(file.data)
        THEN Outcome(st, s, "rejected", FALSE)
        ELSE IF MigrationDiverges(file.data)
        THEN Outcome(st, s, "diverges", FALSE)
        ELSE IF saved.threw
        THEN Outcome(DeepCopy(st), saved.store, "rolledBack", FALSE)
        ELSE Outcome(imported, saved.store, "imported", FALSE)

\* Game.initializeStartingWorld
initializeStartingWorld(st) ==
    [st EXCEPT
        !.currentWorld = IF @ = NoWorld THEN World(0) ELSE @,
        !.unlockedWorlds = IF Includes(@, 0) THEN @ ELSE Append(@, 0)]

\* AchievementSystem.initializeAchievementTracking
initializeAchievementTracking(st) == [st EXCEPT !.tracking = TRUE]

\* Game.initAsync: loadGame, the starting world, the telemetry, updateUI
initAsync(st, s, t, fail) ==
    LET loaded == GameLoadGame(st, s, t, fail)
    IN  IF loaded.result \in {"diverges", "overflow"} THEN loaded
        ELSE Outcome(
                 updateUI(initializeAchievementTracking(
                     initializeStartingWorld(loaded.state))),
                 loaded.store, loaded.result, FALSE)

----------------------------------------------------------------------------
(* Timers.  An interval timer of the page is the record of its id, its      *)
(* period in milliseconds and its callback; ids are handed out in rising    *)
(* order and never again.  Game.autoSaveTimer is undefined until the first  *)
(* auto-save timer is set.                                                  *)

\* this.autoSaveTimer before setupAutoSave has set a timer: undefined
NoTimer == 0

\* state.settings.autoSaveInterval || 30
defaultAutoSaveInterval == 30

\* the period of the playtime and achievement check
tickPeriod == 1000

\* the intervals the options page offers and the value after a reset of
\* the settings, in seconds
AutoSaveIntervals == {0, 30, 60}

TimerIds(active) == {timer.id : timer \in active}

\* the greatest of a set of natural numbers
Greatest(S) == CHOOSE n \in S : \A m \in S : m <= n

\* setInterval(callback, period): the id it returns and the timers after;
\* the id handed out last is that of the auto-save timer set last or that
\* of a timer still active
setInterval(timer, active, callback, period) ==
    LET id == Greatest({timer} \cup TimerIds(active)) + 1
    IN  [id |-> id,
         intervals |-> active \cup
             {[id |-> id, period |-> period, callback |-> callback]}]

\* clearInterval(id)
clearInterval(active, id) == {timer \in active : timer.id # id}

\* a setup that leaves the timer it finds running
setupAutoSaveKeeps(timer, active, interval) ==
    LET set == setInterval(timer, active, "autoSave", interval * 1000)
    IN  IF interval > 0
        THEN [autoSaveTimer |-> set.id, intervals |-> set.intervals]
        ELSE [autoSaveTimer |-> timer, intervals |-> active]

\* Game.setupAutoSave(interval): the field and the timers it leaves
setupAutoSave(timer, active, interval) ==
    LET cleared == IF timer # NoTimer THEN clearInterval(active, timer)
                   ELSE active
        set == setInterval(timer, cleared, "autoSave", interval * 1000)
    IN  IF interval > 0
        THEN [autoSaveTimer |-> set.id, intervals |-> set.intervals]
        ELSE [autoSaveTimer |-> timer, intervals |-> cleared]

\* the settings the options page changes: the auto-save interval, and one
\* of those that change nothing but the settings
Settings == {"autoSaveInterval", "volume"}

\* Game.updateSetting(setting, value), as far as the state and the store go
updateSetting(st, s, t, setting, value, fail) ==
    LET changed == IF setting = "autoSaveInterval"
                   THEN [st EXCEPT !.settings.autoSaveInterval = value]
                   ELSE st
    IN  GameSaveGame(changed, s, t, fail)

----------------------------------------------------------------------------
(* The state machine *)

Store == [save |-> save, index |-> backupIndex, slots |-> backupSlots]

\* a handler that ends as out; a handler that never returns leaves the
\* page hung
Finish(out) ==
    /\ state' = out.state
    /\ save' = out.store.save
    /\ backupIndex' = out.store.index
    /\ backupSlots' = out.store.slots
    /\ pc' = IF out.result \in {"diverges", "overflow"} THEN "hung"
             ELSE "running"
    /\ UNCHANGED now

\* a handler that sets and clears no timer
Handle(out) ==
    /\ Finish(out)
    /\ UNCHANGED <<autoSaveTimer, intervals>>

\* initAsync is over and no handler hangs
Running == pc = "running"

\* the resources the generation buttons name
GenTypes == {"heat", "fuel"}

\* the state after the constructor, nothing stored
Init ==
    /\ state = GameState
    /\ save = NoItem
    /\ backupIndex = NoIndex
    /\ backupSlots = EmptySlots
    /\ now = 0
    /\ pc = "constructed"
    /\ autoSaveTimer = NoTimer
    /\ intervals = {}

\* the timers Game.initAsync starts once the game is loaded: the auto-save
\* timer with state.settings.autoSaveInterval || 30, then the timer of the
\* playtime and achievement check
startTimers(timer, active, stored) ==
    LET autoSaveInterval == IF stored = 0 THEN defaultAutoSaveInterval
                            ELSE stored
        set == setupAutoSave(timer, active, autoSaveInterval)
        ticking == setInterval(set.autoSaveTimer, set.intervals, "tick",
                               tickPeriod)
    IN  [autoSaveTimer |-> set.autoSaveTimer, intervals |-> ticking.intervals]

\* Game.initAsync; an initAsync that never leaves loadGame starts no timer
InitAsync ==
    /\ pc = "constructed"
    /\ Finish(initAsync(state, Store, now, "none"))
    /\ LET started == startTimers(autoSaveTimer, intervals,
                                  state'.settings.autoSaveInterval)
       IN  IF pc' = "hung"
           THEN UNCHANGED <<autoSaveTimer, intervals>>
           ELSE /\ autoSaveTimer' = started.autoSaveTimer
                /\ intervals' = started.intervals

GenerateResource ==
    /\ Running
    /\ state.totalClicks + 2 <= MaxClicks
    /\ \E type \in GenTypes :
          Handle(generateResource(state, Store, now, type, "none"))

GenerateEnergy ==
    /\ Running
    /\ state.totalClicks + 1 <= MaxClicks
    /\ Handle(generateEnergy(state, Store, now, "none"))

UpgradeResource ==
    /\ Running
    /\ \E b \in BasicButtons :
          Handle(GameUpgradeResource(state, Store, now, b[1], b[2], "none"))

UpgradeCrossResource ==
    /\ Running
    /\ \E b \in CrossButtons :
          Handle(GameUpgradeCrossResource(state, Store, now, b[1], b[2],
                                          "none"))

\* WorldSystem.selectWorld, called with any world id
SelectWorld ==
    /\ Running
    /\ \E w \in WorldIds :
          LET selected == selectWorld(state, w)
          IN  Handle(Outcome(selected.state, Store,
                             IF selected.ok THEN "true" ELSE "false", FALSE))

CreateWorld ==
    /\ Running
    /\ Handle(createWorld(state, Store, now, "none"))

SelectEventChoice ==
    /\ Running
    /\ \E effect \in EventEffects :
          Handle(selectEventChoice(state, Store, effect))

UnlockWorldGenerator ==
    /\ Running
    /\ Handle(unlockWorldGenerator(state, Store, now, "none"))

Tick ==
    /\ Running
    /\ Handle(tick(state, Store, now, "none"))

SaveGame ==
    /\ Running
    /\ Handle(GameSaveGame(state, Store, now, "none"))

LoadGame ==
    /\ Running
    /\ Len(getBackupList(Store)) < MaxIndex
    /\ Handle(GameLoadGame(state, Store, now, "none"))

ResetGame ==
    /\ Running
    /\ \E confirmed \in BOOLEAN :
          Handle(resetGame(state, Store, confirmed))

\* the achievements of a longer game: 24 of them, the upgrade, the
\* twenty-five worlds and the speed run not among them
LongGameUnlocked ==
    <<1, 2, 4, 5, 6, 7, 8, 9, 10, 11, 12, 13, 14, 15, 16,
      18, 19, 20, 21, 22, 23, 24, 25, 27>>

\* the state of a longer game, heat and fuel in the ratio 3 : 1, one world
\* created by a selection, which leaves no entry in worldHistory
LongGame ==
    [GameState EXCEPT
        !.worldsCreated = 1,
        !.resources["heat"] = 30, !.resources["fuel"] = 10,
        !.tracking = TRUE, !.totalClicks = MaxClicks,
        !.achievements.unlocked = LongGameUnlocked,
        !.achievementBonuses =
            [stored |-> TRUE, table |-> BonusTable(LongGameUnlocked)]]

\* the files offered to importSave: no JSON, the save of a new game, a save
\* with a level above maxLevel, the save of a longer game, a save with a
\* negative amount
ImportFiles ==
    {Garbage,
     Json(Stringify(GameState)),
     Json(Stringify([GameState EXCEPT !.upgrades["heatGenerator"].level = 11])),
     Json(Stringify(LongGame)),
     Json(Stringify([GameState EXCEPT !.resources["heat"] = -5]))}

ImportSave ==
    /\ Running
    /\ \E file \in ImportFiles :
          Handle(importSave(state, Store, now, file, "none"))

\* Date.now() moves on between two handlers
AdvanceClock ==
    /\ now < MaxTime
    /\ now' = now + 1
    /\ UNCHANGED <<state, save, backupIndex, backupSlots, pc, autoSaveTimer,
                   intervals>>

\* a new game played in one sitting
Next ==
    \/ InitAsync
    \/ GenerateResource
    \/ GenerateEnergy
    \/ UpgradeResource
    \/ UpgradeCrossResource
    \/ SelectWorld
    \/ CreateWorld
    \/ SelectEventChoice
    \/ UnlockWorldGenerator
    \/ Tick

Spec == Init /\ [][Next]_vars

\* a game that is saved, loaded, reset and replaced by imported files
NextSave ==
    \/ InitAsync
    \/ Tick
    \/ SaveGame
    \/ LoadGame
    \/ ResetGame
    \/ ImportSave
    \/ AdvanceClock

SpecSave == Init /\ [][NextSave]_vars

\* GameState.restoreFromSpecificBackup, called with any timestamp
RestoreFromSpecificBackup ==
    /\ Running
    /\ Len(getBackupList(Store)) < MaxIndex
    /\ \E timestamp \in Times :
          LET restored == restoreFromSpecificBackup(Store, now, timestamp,
                                                    "none")
          IN  Handle(Outcome(state, restored.store,
                             IF restored.ok THEN "true" ELSE "false", FALSE))

\* saves, loads and restores of chosen backups, of a game that imported
\* files change
NextBackups ==
    \/ InitAsync
    \/ SaveGame
    \/ LoadGame
    \/ RestoreFromSpecificBackup
    \/ ImportSave
    \/ AdvanceClock

SpecBackups == Init /\ [][NextBackups]_vars

\* the storage conditions under which the write of the save key throws
WriteFailures == {"save", "all", "growing"}

\* Game.saveGame while localStorage refuses the snapshot
SaveGameQuota ==
    /\ Running
    /\ Len(getBackupList(Store)) < MaxIndex
    /\ \E fail \in WriteFailures :
          Handle(GameSaveGame(state, Store, now, fail))

\* a game that is saved and reset, with saves that localStorage refuses
NextQuota ==
    \/ InitAsync
    \/ SaveGame
    \/ SaveGameQuota
    \/ ResetGame
    \/ AdvanceClock

SpecQuota == Init /\ [][NextQuota]_vars

\* Game.importSave while localStorage refuses the snapshot
ImportSaveQuota ==
    /\ Running
    /\ Len(getBackupList(Store)) < MaxIndex
    /\ \E file \in ImportFiles, fail \in WriteFailures :
          Handle(importSave(state, Store, now, file, fail))

\* a game replaced by imported files, with saves that localStorage refuses
NextImport ==
    \/ InitAsync
    \/ ImportSave
    \/ ImportSaveQuota
    \/ AdvanceClock

SpecImport == Init /\ [][NextImport]_vars

\* bound of the model: the ids of the auto-save timers stay below this
MaxTimers == 5

\* Game.updateSetting from the options page
UpdateSetting ==
    /\ Running
    /\ autoSaveTimer < MaxTimers
    /\ \E setting \in Settings, value \in AutoSaveIntervals :
          LET set == IF setting = "autoSaveInterval"
                     THEN setupAutoSave(autoSaveTimer, intervals, value)
                     ELSE [autoSaveTimer |-> autoSaveTimer,
                           intervals |-> intervals]
          IN  /\ Finish(updateSetting(state, Store, now, setting, value,
                                      "none"))
              /\ autoSaveTimer' = set.autoSaveTimer
              /\ intervals' = set.intervals

\* the auto-save timers that are active
AutoSaveTimers == {timer \in intervals : timer.callback = "autoSave"}

\* an auto-save timer fires
AutoSave ==
    /\ Running
    /\ AutoSaveTimers # {}
    /\ Handle(GameSaveGame(state, Store, now, "none"))

\* the saves a page may find stored: none, and the save of a game for each
\* auto-save interval
SettingsSaves ==
    {NoItem} \cup
    {Json(Stringify([GameState EXCEPT !.settings.autoSaveInterval = value])) :
        value \in AutoSaveIntervals}

InitSettings ==
    /\ state = GameState
    /\ save \in SettingsSaves
    /\ backupIndex = NoIndex
    /\ backupSlots = EmptySlots
    /\ now = 0
    /\ pc = "constructed"
    /\ autoSaveTimer = NoTimer
    /\ intervals = {}

\* a page that is opened, whose settings are changed and whose game is
\* loaded again, the timers firing; no timer reads the clock
NextSettings ==
    \/ InitAsync
    \/ UpdateSetting
    \/ AutoSave
    \/ Tick
    \/ LoadGame

SpecSettings == InitSettings /\ [][NextSettings]_vars

\* bound of the model: manual clicks of a game that only generates and
\* selects worlds
MaxWorldClicks == 22

\* Game.generateResource in the longer game
GenerateForWorlds ==
    /\ Running
    /\ state.totalClicks + 2 <= MaxWorldClicks
    /\ \E type \in GenTypes :
          Handle(generateResource(state, Store, now, type, "none"))

\* a new game in which resources are generated and worlds are selected,
\* nothing is bought
NextWorlds ==
    \/ InitAsync
    \/ GenerateForWorlds
    \/ SelectWorld

SpecWorlds == Init /\ [][NextWorlds]_vars

\* a new game in which resources are generated and upgrades are bought
NextUpgrades ==
    \/ InitAsync
    \/ GenerateResource
    \/ UpgradeResource
    \/ UpgradeCrossResource

SpecUpgrades == Init /\ [][NextUpgrades]_vars

----------------------------------------------------------------------------
(* The page opened on whatever localStorage holds *)

\* a game in progress, and the same game two clicks on
Played(heat) ==
    [GameState EXCEPT !.resources["heat"] = heat,
                      !.currentWorld = World(0),
                      !.tracking = TRUE, !.totalClicks = 2]

\* a game in progress whose save carries both secret codes
WithCodes ==
    [Played(18) EXCEPT !.secretCodes = {"MACHINE_POWER", "WORLD_MACHINE"}]

\* a game in progress with the pressure valve at level 2, pressure above
\* 80 and stability above 20
WithValve ==
    [Played(18) EXCEPT !.resources["pressure"] = 85,
                       !.resources["stability"] = 25,
                       !.upgrades["pressureValve"].level = 2,
                       !.upgrades["pressureValve"].unlocked = TRUE]

\* the save of a game in progress written by a version of the game that
\* had no energyMatrix upgrade: the key is absent
OldSave ==
    [Stringify(Played(45)) EXCEPT
        !.upgrades.ups["energyMatrix"] =
            [t |-> "undef", level |-> Undef, maxLevel |-> Undef,
             unlocked |-> FALSE]]

\* a save whose worldsCreated is 1e999
Endless ==
    [Stringify(GameState) EXCEPT !.worldsCreated = Inf]

\* a save with a negative amount
Negative == Stringify([GameState EXCEPT !.resources["heat"] = -5])

\* the contents of the save key
StoredSaves ==
    {NoItem, Garbage, Json(Negative), Json(Endless),
     Json(Stringify(Played(18))),
     Json(Stringify([GameState EXCEPT !.upgrades["heatGenerator"].level = 11])),
     Json(Stringify(WithCodes)), Json(OldSave), Json(Stringify(WithValve))}

\* the contents of a backup slot
StoredBackups ==
    {NoItem, Garbage, Json(Negative),
     Json(Stringify(Played(18))), Json(Stringify(Played(36)))}

\* the contents of the backup index: absent, unparseable, JSON that is no
\* array, or entries for the timestamps 0 and 1
StoredIndexes ==
    {NoIndex, [kind |-> "garbage", list |-> <<>>],
     [kind |-> "object", list |-> <<>>]}
    \cup {IndexOf(list) : list \in {<<>>, <<0>>, <<1>>, <<0, 1>>, <<1, 0>>}}

InitStored ==
    /\ state = GameState
    /\ save \in StoredSaves
    /\ backupIndex \in StoredIndexes
    /\ backupSlots \in {[t \in Times |-> IF t = 0 THEN old
                                         ELSE IF t = 1 THEN new ELSE NoItem] :
                           old \in StoredBackups, new \in StoredBackups}
    /\ now = MaxTime
    /\ pc = "constructed"
    /\ autoSaveTimer = NoTimer
    /\ intervals = {}

NextStored ==
    \/ InitAsync
    \/ LoadGame
    \/ SaveGame
    \/ UpgradeCrossResource

SpecStored == InitStored /\ [][NextStored]_vars

----------------------------------------------------------------------------
(* checkWorldUnlocks applied to the amounts and the unlocked worlds an      *)
(* imported save can leave                                                  *)

\* amounts of heat around the unlock thresholds of 25 and 50
UnlockHeat == {24, 25, 49, 50}

\* amounts of the other resources: none, and enough for every world
UnlockAmounts == {0, 50}

\* the unlocked worlds before the calls
UnlockedBefore == {<<0>>, <<0, 1>>, <<0, 1, 2>>}

InitUnlocks ==
    /\ \E heat \in UnlockHeat, unlocked \in UnlockedBefore,
          amounts \in [{"fuel", "water", "oxygen", "stone", "magma", "ice",
                        "crystal"} -> UnlockAmounts] :
          state = [Played(heat) EXCEPT
                      !.resources =
                          [r \in Resources |->
                              IF r \in DOMAIN amounts THEN amounts[r] ELSE @[r]],
                      !.unlockedWorlds = unlocked]
    /\ save = NoItem
    /\ backupIndex = NoIndex
    /\ backupSlots = EmptySlots
    /\ now = 0
    /\ pc = "running"
    /\ autoSaveTimer = startTimers(NoTimer, {}, 0).autoSaveTimer
    /\ intervals = startTimers(NoTimer, {}, 0).intervals

\* a call of WorldSystem.checkWorldUnlocks
CheckWorldUnlocks ==
    /\ Running
    /\ Handle(Outcome(checkWorldUnlocks(state), Store, "none", FALSE))

NextUnlocks == CheckWorldUnlocks

SpecUnlocks == InitUnlocks /\ [][NextUnlocks]_vars

----------------------------------------------------------------------------
(* validateSaveData applied to parsed JSON *)

\* parsed JSON of the shape of a save, each part replaced by the value given
SaveData(top, created, amounts, heat, water, levels, entry, level, history) ==
    LET base == Stringify(GameState)
        absent == (IF created.t = "undef" THEN {"worldsCreated"} ELSE {})
                  \cup (IF amounts = "undef" THEN {"resources"} ELSE {})
                  \cup (IF levels = "undef" THEN {"upgrades"} ELSE {})
                  \cup (IF history = "undef" THEN {"worldHistory"} ELSE {})
    IN  [base EXCEPT
            !.top = top,
            !.has = IF top = "object" THEN @ \ absent ELSE {},
            !.worldsCreated = created,
            !.resources.t = amounts,
            !.resources.vals["heat"] = heat,
            !.resources.vals["water"] = water,
            !.upgrades.t = levels,
            !.upgrades.ups["heatGenerator"].t = entry,
            !.upgrades.ups["heatGenerator"].level = level,
            !.worldHistory.t = history]

TopValues == {"object", "array", "null", "num", "str"}

WorldsCreatedValues ==
    {Undef, Num(0), Num(3), Num(-1), Frac, NegFrac, Inf, Str, Null}

ContainerValues == {"object", "null", "undef", "str"}

HeatValues == {Undef, Num(5), Num(-5), Frac, Inf, Str, Null}

WaterValues == {Num(0), Num(7), Num(-5)}

EntryValues == {"object", "null", "num"}

LevelValues == {Undef, Num(2), Num(11), Num(-1), Frac, Inf, Str}

WorldHistoryValues == {"array", "undef", "null", "object", "str", "num"}

\* the inputs: the parts vary a few at a time around a save of a new game
SaveDataInputs ==
    {SaveData(top, wc, "object", Num(0), Num(0), "object", "object", Num(0),
              "array") : top \in TopValues, wc \in WorldsCreatedValues}
    \cup {SaveData("object", Num(0), res, heat, water, "object", "object",
                   Num(0), "array") :
             res \in ContainerValues, heat \in HeatValues,
             water \in WaterValues}
    \cup {SaveData("object", Num(0), "object", Num(0), Num(0), upg, entry,
                   level, "array") :
             upg \in ContainerValues, entry \in EntryValues,
             level \in LevelValues}
    \cup {SaveData("object", wc, "object", Num(0), Num(0), "object", "object",
                   Num(0), wh) :
             wc \in WorldsCreatedValues, wh \in WorldHistoryValues}
    \cup {SaveData("object", Num(0), "object", heat, Num(0), "object",
                   "object", level, "array") :
             heat \in HeatValues, level \in LevelValues}

InitValidate ==
    /\ state = GameState
    /\ save \in {Json(data) : data \in SaveDataInputs}
    /\ backupIndex = NoIndex
    /\ backupSlots = EmptySlots
    /\ now = 0
    /\ pc = "constructed"
    /\ autoSaveTimer = NoTimer
    /\ intervals = {}

\* a call of validateSaveData on the parsed text
Validate ==
    /\ pc = "constructed"
    /\ pc' = IF validateSaveData(save.data) THEN "accepted" ELSE "rejected"
    /\ UNCHANGED <<state, save, backupIndex, backupSlots, now, autoSaveTimer,
                   intervals>>

NextValidate == Validate

SpecValidate == InitValidate /\ [][NextValidate]_vars

----------------------------------------------------------------------------
(* The properties *)

\* C1: in every state reached from a new game by player actions every
\* resource is at least 0, pressure is at most its cap of 100, energy at
\* most 200 and stability at most 50, the caps doubled only under
\* noResourceLimits
C1_ResourcesWithinBounds ==
    /\ \A r \in Resources : state.resources[r] >= 0
    /\ \A r \in {"pressure", "energy", "stability"} :
          state.resources[r] <= Cap(state, r)

\* what C2 says of one purchase call that starts in st and ends as out
PurchaseContract(st, out, u, r) ==
    /\ \/ /\ out.result = "true"
          /\ out.state = Purchased(st, u, r)
       \/ /\ out.result = "false"
          /\ out.state = st
    /\ (st.upgrades[u].level = st.upgrades[u].maxLevel
        \/ st.resources[r] < getUpgradeCost(st, u)) => out.result = "false"

\* C2: upgradeResource and upgradeCrossResource either return true with
\* exactly the cost deducted and the level one higher, or return false with
\* nothing changed, and return false whenever the level is at maxLevel or
\* the paying resource is below the cost
C2_PurchaseAtomic ==
    Running =>
        /\ \A b \in BasicButtons :
              PurchaseContract(state, upgradeResource(state, b[1], b[2]),
                               b[1], b[2])
        /\ \A b \in CrossButtons :
              PurchaseContract(state, upgradeCrossResource(state, b[1], b[2]),
                               b[1], b[2])

\* C3: in every reachable state, those produced by loadGame and importSave
\* from a save that passes validateSaveData included, every upgrade has
\* 0 <= level <= maxLevel
C3_LevelsWithinRange ==
    \A u \in Upgrades :
        /\ 0 <= state.upgrades[u].level
        /\ state.upgrades[u].level <= state.upgrades[u].maxLevel

\* C4: a second call of checkAchievements right after a first one, with no
\* change between them, unlocks nothing
C4_CheckIdempotent ==
    Running => NewAchievements(checkAchievements(state)) = {}

\* C5: every step that is not a full reset keeps every member of
\* achievements.unlocked
C5_UnlockedNeverShrinks ==
    [][ResetGame \/ Range(state.achievements.unlocked)
                        \subseteq Range(state'.achievements.unlocked)]_vars

\* the state without the unlocks container, which a load creates empty
WithoutUnlocks(st) == [st EXCEPT !.unlocks = "locked"]

\* C6: from every state reached by play, saveGame followed at once by
\* loadGame returns true and leaves the state equal to the saved one
C6_SaveLoadRoundTrip ==
    Running =>
        LET saved == saveGame(state, Store, now, "none")
            loaded == loadGame(state, saved.store, now, "none", 0)
        IN  /\ ~saved.threw
            /\ loaded.result = "true"
            /\ WithoutUnlocks(loaded.state) = WithoutUnlocks(state)

\* what C7 says validateSaveData accepts
StructurallyValid(data) ==
    /\ data.top = "object"
    /\ RequiredKeys \subseteq data.has
    /\ IsNumber(data.worldsCreated) /\ IsFinite(data.worldsCreated)
    /\ ~IsNegative(data.worldsCreated)
    /\ data.resources.t = "object"
    /\ \A r \in Resources :
          LET value == data.resources.vals[r] IN
          value.t # "undef" =>
              IsNumber(value) /\ IsFinite(value) /\ ~IsNegative(value)
    /\ data.upgrades.t = "object"
    /\ \A u \in Upgrades :
          LET upgrade == data.upgrades.ups[u] IN
          (upgrade.t = "object" /\ upgrade.level.t # "undef") =>
              IsInteger(upgrade.level) /\ ~IsNegative(upgrade.level)
    /\ data.worldHistory.t \in {"array", "undef", "null"}

\* C7: validateSaveData returns true exactly when the data is an object
\* with worldsCreated, resources and upgrades, worldsCreated a finite
\* non-negative number, every resource value a finite non-negative number,
\* every upgrade level a finite non-negative integer, and worldHistory,
\* if present, an array
C7_ValidatorExact ==
    pc \in {"accepted", "rejected"} =>
        (pc = "accepted" <=> StructurallyValid(save.data))

\* the stored item is a backup that passes validation
ValidBackup(item) == item.kind = "json" /\ validateSaveData(item.data)

\* the timestamps of the index whose slot passes validation
ValidBackups(s) ==
    {t \in Range(getBackupList(s)) : ValidBackup(s.slots[t])}

\* the save key holds nothing loadGame can use
SaveUnusable(s) ==
    \/ s.save.kind = "garbage"
    \/ s.save.kind = "json" /\ ~validateSaveData(s.save.data)

\* C8: when the stored save is invalid or unparseable, loadGame restores
\* the newest backup that passes validation and ends with the state loaded
\* from it; it returns false with the state unchanged only when no backup
\* passes validation
C8_RestoresNewestValidBackup ==
    (pc = "constructed" /\ SaveUnusable(Store)) =>
        LET loaded == loadGame(state, Store, now, "none", 0)
            valid == ValidBackups(Store)
            newest == CHOOSE t \in valid : \A v \in valid : v <= t
            expected == validateAndFixState(
                            MergeSave(Raw(state), backupSlots[newest].data))
        IN  IF valid = {}
            THEN loaded.result = "false" /\ loaded.state = state
            ELSE loaded.result = "true" /\ loaded.state = expected

\* C9: loadGame returns true or false for every content of the save key,
\* the backup index and the backup slots: no call hangs the page
C9_LoadGameReturns ==
    /\ pc # "hung"
    /\ loadGame(state, Store, now, "none", 0).result \in {"true", "false"}

\* the payload of the newest entry of the backup index
NewestBackup(s) ==
    LET backups == SortDescending(getBackupList(s))
    IN  IF backups = <<>> THEN NoItem ELSE s.slots[backups[1]]

\* C10: a saveGame that finds a snapshot stored leaves that snapshot as the
\* payload of the newest backup
C10_NewestBackupIsPreviousSave ==
    [][(SaveGame /\ save # NoItem)
           => <<backupSlots, backupIndex>>' # <<backupSlots, backupIndex>>
              /\ NewestBackup([save |-> save', index |-> backupIndex',
                               slots |-> backupSlots']) = save]_vars

\* the index a save leaves when it finds the index as list: the entry of
\* the backup it makes added, the newest maxBackups entries kept
NewestEntries(list, backedUp, t) ==
    LET entries == IF backedUp THEN Append(list, t) ELSE list
        sorted == SortDescending(entries)
    IN  SubSeq(sorted, 1, Min(maxBackups, Len(sorted)))

C12_FailedSaveRethrows ==
    [][SaveGameQuota =>
          /\ state' = state
          /\ \E fail \in WriteFailures :
                LET out == saveGame(state, Store, now, fail)
                    backedUp == createBackup(Store, now, fail)
                IN  /\ out.threw
                    /\ Store' = restoreFromBackup(backedUp, fail).store]_vars

\* a refused save after a reset has put the newest backup under the save
\* key, the state in memory being another one
C12_Witness ==
    /\ Running
    /\ save # NoItem
    /\ save = NewestBackup(Store)
    /\ save # Json(Stringify(state))

\* C13: importSave applies a file only if it passes validateSaveData; when
\* the file fails validation, or the save of the imported state throws, the
\* state after the callback is the state before it; no error leaves the
\* callback
C13_ImportAppliesOrRestores ==
    Running =>
        \A file \in ImportFiles, fail \in Failures :
            LET out == importSave(state, Store, now, file, fail)
                valid == file.kind = "json" /\ validateSaveData(file.data)
            IN  /\ ~out.threw
                /\ out.result = "imported" => valid
                /\ (~valid \/ fail \in WriteFailures) => out.state = state

\* a refused import has left the index unpruned, the state and the stored
\* snapshot being the ones before it
C13_Witness ==
    /\ Running
    /\ Len(backupIndex.list) > maxBackups
    /\ save = Json(Stringify(state))

\* what C14 compares of a snapshot: the resources, the active events, the
\* click counter and the unlocked achievements
Persisted(data) ==
    <<data.resources, data.game.activeEvents, data.tracking.totalClicks,
      data.game.achievements.unlocked>>

\* C14: when a manual-generation handler returns, the stored snapshot holds
\* the resources, the active events, the click counter and the unlocked
\* achievements of the state in memory, the snapshot being written after
\* the achievements are evaluated
C14_SnapshotAfterGeneration ==
    [][GenerateResource =>
          /\ save'.kind = "json"
          /\ Persisted(save'.data) = Persisted(Stringify(state'))]_vars

\* the periods of the active auto-save timers, in seconds
AutoSavePeriods == {timer.period \div 1000 : timer \in AutoSaveTimers}

\* C15: whatever setupAutoSave calls came before, the one of the game
\* start and one for every change of autoSaveInterval, at most one
\* auto-save timer is active; after a call with a positive interval it is
\* the timer of that interval, and no other handler sets or clears one
C15_OneAutoSaveTimer ==
    [][/\ Cardinality(AutoSaveTimers') <= 1
       /\ AutoSaveTimers' # AutoSaveTimers => (InitAsync \/ UpdateSetting)
       /\ ((InitAsync \/ UpdateSetting)
           /\ state'.settings.autoSaveInterval # state.settings.autoSaveInterval
           /\ state'.settings.autoSaveInterval > 0)
          => AutoSavePeriods' = {state'.settings.autoSaveInterval}]_vars

\* the interval was changed while a timer was running: the timer of the
\* new interval is the only one
C15_Witness ==
    /\ Running
    /\ autoSaveTimer > 2
    /\ AutoSavePeriods = {60}
    /\ state.settings.autoSaveInterval = 60

\* C16: whenever settings.autoSaveInterval is 0 no auto-save timer is
\* active, right after the setting is changed to 0 as well as after the
\* game is started with a loaded save whose autoSaveInterval is 0
C16_ZeroDisablesAutoSave ==
    (Running /\ state.settings.autoSaveInterval = 0) => AutoSaveTimers = {}

\* the choices of the events whose duration is positive
TimedEffects ==
    {"heatBoost", "fuelBoost", "pressureBoost", "allResourceBoost",
     "solarHarvest", "stabilityProtect", "worldReroll", "stabilityGain",
     "tierUnlock", "energyGain", "cheapUpgrade", "resourceChoice",
     "cheapUpgrades"}

\* C17: between two handlers every active event has a duration of 1 or
\* more, and the choice of an event of positive duration leaves the event
\* among the active events, from where updateActiveEvents counts it down
C17_EventsRunTheirDuration ==
    Running =>
        /\ \A i \in DOMAIN state.activeEvents :
              state.activeEvents[i].duration >= 1
        /\ \A effect \in TimedEffects :
              LET chosen == selectEventChoice(state, Store, effect)
              IN  /\ ~chosen.threw
                  /\ \E i \in DOMAIN chosen.state.activeEvents :
                        chosen.state.activeEvents[i].effect = effect

\* the unlock requirement of world w, as an amount of every resource
Cost(w) ==
    [r \in Resources |->
        IF r \in DOMAIN worldDefinitions[w].req
        THEN worldDefinitions[w].req[r] ELSE 0]

\* what has been deducted from every resource of a game in which nothing
\* is bought: what was generated less what is there
Paid(st) == [r \in Resources |-> st.manualGeneration[r] - st.resources[r]]

C19_UnaffordableSelectionFails ==
    Running =>
        \A w \in WorldIds :
            (/\ Includes(state.unlockedWorlds, w)
             /\ state.worldProgress < w
             /\ ~canUnlockWorld(state, w)) =>
                LET selected == selectWorld(state, w)
                IN  /\ ~selected.ok
                    /\ selected.state.resources = state.resources
                    /\ selected.state.worldsCreated = state.worldsCreated
                    /\ selected.state.worldProgress = state.worldProgress
                    /\ selected.state.currentWorld = state.currentWorld

\* C20: from a new game with Desert current, once manual generation has
\* brought heat to 50 and fuel to 25 or more, createWorld makes Ocean the
\* current world, deducts 50 heat and 25 fuel, sets worldsCreated to 1,
\* appends an entry to worldHistory and keeps Ocean unlocked
C20_CreateWorldReachesOcean ==
    (/\ Running
     /\ state.currentWorld.id = 0
     /\ state.worldProgress = 0
     /\ state.resources["heat"] >= 50
     /\ state.resources["fuel"] >= 25) =>
        LET created == createWorld(state, Store, now, "none").state
        IN  /\ created.currentWorld.id = 1
            /\ created.resources["heat"] = state.resources["heat"] - 50
            /\ created.resources["fuel"] = state.resources["fuel"] - 25
            /\ created.worldsCreated = 1
            /\ Len(created.worldHistory) = Len(state.worldHistory) + 1
            /\ Includes(created.unlockedWorlds, 1)

\* C21: checkAchievements never unlocks a hidden achievement (36, 48) while
\* its code is absent from state.secretCodes, and unlocks it in the first
\* call made after its code is present in state.secretCodes
C21_SecretCodeUnlocksHidden ==
    Running =>
        \A i \in DOMAIN SecretCode :
            LET unlocked == checkAchievements(state).achievements.unlocked
            IN  IF SecretCode[i] \in state.secretCodes
                THEN Includes(unlocked, i)
                ELSE Includes(unlocked, i)
                         => Includes(state.achievements.unlocked, i)

\* C22: in every reachable state, those right after loadGame, importSave
\* and resetGame included, state.achievementBonuses is the table that
\* applyAchievementBonuses computes from scratch from the current
\* achievements.unlocked (a state that has no table yet counting as one
\* with the table of no achievement), and two consecutive calls of
\* applyAchievementBonuses return the same table
C22_BonusesMatchUnlocked ==
    Running =>
        LET stored == IF state.achievementBonuses.stored
                      THEN state.achievementBonuses.table
                      ELSE BonusTable(<<>>)
            once == applyAchievementBonuses(state)
            twice == applyAchievementBonuses(once)
        IN  /\ stored = once.achievementBonuses.table
            /\ twice.achievementBonuses = once.achievementBonuses

\* C23: after loadGame succeeds on a valid save, every upgrade, every
\* resource, the permanent bonuses, the achievements and the settings have
\* the saved value where the save has the key, and the schema default of a
\* new game where it has not
C23_LoadTakesSavedOrDefault ==
    (Running /\ save.kind = "json" /\ validateSaveData(save.data)) =>
        LET loaded == loadGame(state, Store, now, "none", 0)
            data == save.data
            hasGame == "game" \in data.has
            entry(u) == data.upgrades.ups[u]
        IN  loaded.result = "true" =>
                /\ \A u \in Upgrades :
                      loaded.state.upgrades[u] =
                          IF entry(u).t = "undef" THEN defaultUpgrades[u]
                          ELSE [level |-> NumOf(entry(u).level),
                                maxLevel |-> NumOf(entry(u).maxLevel),
                                unlocked |-> entry(u).unlocked]
                /\ \A r \in Resources :
                      loaded.state.resources[r] =
                          IF data.resources.vals[r].t = "undef"
                          THEN GameState.resources[r]
                          ELSE NumOf(data.resources.vals[r])
                /\ loaded.state.permanentBonuses =
                       IF hasGame THEN data.game.permanentBonuses
                       ELSE GameState.permanentBonuses
                /\ loaded.state.achievements =
                       IF hasGame THEN data.game.achievements
                       ELSE GameState.achievements
                /\ loaded.state.settings =
                       IF hasGame THEN data.game.settings
                       ELSE GameState.settings

\* floor(base * 1.5^level), the power written out as a decimal fraction
FlooredCost(base, level) == (base * Power(15, level)) \div Power(10, level)

\* C24: with upgradeCostReduction 1.0 and no cost-reducing event active the
\* cost of an upgrade is floor(baseCost * 1.5^level), recomputed from the
\* level at every call: heatGenerator costs 10 at level 0 and 15 at level
\* 1, a purchase with heat = 10 leaves level 1 and heat 0, and a purchase
\* deducts what getUpgradeCost returns in the state it starts in
C24_CostFollowsLevel ==
    (/\ Running
     /\ state.permanentBonuses.upgradeCostReduction = 100
     /\ CheapUpgradeEvents(state) = 0) =>
        /\ \A u \in Upgrades :
              getUpgradeCost(state, u)
                  = FlooredCost(baseCost[u], state.upgrades[u].level)
        /\ state.upgrades["heatGenerator"].level = 0
              => getUpgradeCost(state, "heatGenerator") = 10
        /\ state.upgrades["heatGenerator"].level = 1
              => getUpgradeCost(state, "heatGenerator") = 15
        /\ (state.upgrades["heatGenerator"].level = 0
             /\ state.resources["heat"] = 10) =>
                LET bought == upgradeResource(state, "heatGenerator", "heat")
                IN  /\ bought.result = "true"
                    /\ bought.state.upgrades["heatGenerator"].level = 1
                    /\ bought.state.resources["heat"] = 0
                    /\ getUpgradeCost(bought.state, "heatGenerator") = 15
        /\ \A b \in BasicButtons \cup CrossButtons :
              LET bought == IF b \in BasicButtons
                            THEN upgradeResource(state, b[1], b[2])
                            ELSE upgradeCrossResource(state, b[1], b[2])
              IN  bought.result # "false" =>
                      bought.state.resources[b[2]] =
                          state.resources[b[2]] - getUpgradeCost(state, b[1])

\* heatGenerator was bought at level 0 with the 10 heat that were left, and
\* bought again later at the higher costs
C24_Witness ==
    /\ Running
    /\ state.resources["heat"] = 0
    /\ state.upgrades["heatGenerator"].level = 1
    /\ state.upgrades["thermalAccelerator"].level = 2

\* C25: no step other than a full reset, loadGame and importSave included,
\* lowers worldsCreated or permanentBonuses.resourceEfficiency
C25_ProgressNeverDecreases ==
    [][ResetGame
       \/ /\ state'.worldsCreated >= state.worldsCreated
          /\ state'.permanentBonuses.resourceEfficiency
                 >= state.permanentBonuses.resourceEfficiency]_vars

\* C26: every snapshot that saveGame writes in a game reached by play
\* passes validateSaveData, so that a load of it needs no backup recovery
C26_SnapshotsAreValid ==
    (Running /\ save.kind = "json") =>
        /\ validateSaveData(save.data)
        /\ loadGame(state, Store, now, "none", 0).store.save = save

\* C27: after any sequence of saveGame, loadGame and
\* restoreFromSpecificBackup calls, several saves within one millisecond
\* included, every entry of the backup index names a backup key that is
\* in storage, and no two entries name the same key
C27_IndexMatchesStorage ==
    Running =>
        LET backups == getBackupList(Store)
        IN  /\ \A i \in DOMAIN backups : backupSlots[backups[i]] # NoItem
            /\ \A i, j \in DOMAIN backups :
                  i # j => backups[i] # backups[j]

\* C28: when the write of the new snapshot throws inside saveGame, also
\* after the backup write has failed silently, the save key holds after
\* the recovery the snapshot that was stored before the call
C28_FailedSaveKeepsSnapshot ==
    [][(SaveGameQuota /\ save # NoItem) => save' = save]_vars

\* C29: in the state a confirmed resetGame leaves, a manual generation
\* runs its whole handler without an error: the gain is credited, the
\* manual generation, the discovery and the clicks are recorded, and the
\* achievements are checked again
C29_GenerationAfterReset ==
    (Running /\ state = resetGame(state, Store, TRUE).state) =>
        \A type \in GenTypes :
            LET out == generateResource(state, Store, now, type, "none")
            IN  /\ ~out.threw
                /\ out.state.resources[type] > state.resources[type]
                /\ out.state.manualGeneration[type]
                       = state.manualGeneration[type]
                             + out.state.resources[type] - state.resources[type]
                /\ type \in out.state.discoveries
                /\ out.state.totalClicks > state.totalClicks
                /\ NewAchievements(out.state) = {}

\* both threshold conditions of cross-resource upgrade u hold in st
ThresholdsMet(st, u) ==
    checkUpgradeUnlocks(
        [st EXCEPT !.upgrades[u].unlocked = FALSE]).upgrades[u].unlocked

\* C30: for every cross-resource upgrade, level > 0 implies unlocked in
\* every reachable state: the purchase of a locked one is refused, and the
\* unlocked flag turns true only where both of its threshold conditions
\* hold and never turns false again
C30_LockedUpgradesStayUnbought ==
    /\ [](Running =>
              \A b \in CrossButtons :
                  /\ state.upgrades[b[1]].level > 0
                        => state.upgrades[b[1]].unlocked
                  /\ ~state.upgrades[b[1]].unlocked
                        => upgradeCrossResource(state, b[1], b[2]).result
                               = "false")
    /\ [][\A u \in CrossUpgrades :
              /\ state.upgrades[u].unlocked => state'.upgrades[u].unlocked
              /\ (~state.upgrades[u].unlocked /\ state'.upgrades[u].unlocked)
                    => ThresholdsMet(state', u)]_vars


\* C31: after a confirmed resetGame no loadGame brings a snapshot taken
\* before the reset back into memory: the load right after the reset finds
\* nothing and leaves the new game as it is, and so does the load that
\* follows a save of the new game that localStorage refused
C31_ResetDiscardsSnapshots ==
    Running =>
        LET reset == resetGame(state, Store, TRUE)
            direct == GameLoadGame(reset.state, reset.store, now, "none")
        IN  /\ direct.state = reset.state
            /\ \A fail \in WriteFailures :
                   LET failed == GameSaveGame(reset.state, reset.store, now,
                                              fail)
                       loaded == GameLoadGame(failed.state, failed.store, now,
                                              "none")
                   IN  loaded.state = reset.state


\* C32: every manual generation that credits a resource raises
\* state.totalClicks by exactly 1
C32_OneClickPerGeneration ==
    [][(GenerateResource
        /\ \E type \in GenTypes :
               state'.resources[type] > state.resources[type])
           => state'.totalClicks = state.totalClicks + 1]_vars


\* the worlds that are not unlocked in st and whose every requirement the
\* amounts of st reach
Unlockable(st) ==
    {w \in WorldIds :
        /\ \A i \in DOMAIN st.unlockedWorlds : st.unlockedWorlds[i] # w
        /\ \A r \in DOMAIN worldDefinitions[w].req :
               st.resources[r] >= worldDefinitions[w].req[r]}

\* C33: a call of checkWorldUnlocks appends to unlockedWorlds the
\* lowest-id world that is not unlocked and whose every requirement is met,
\* and nothing else; where there is no such world it changes nothing;
\* unlockedWorlds holds no id twice and no call removes an entry
C33_UnlocksLowestWorld ==
    /\ [](Running =>
              LET out == checkWorldUnlocks(state)
                  open == Unlockable(state)
              IN  /\ \A i, j \in DOMAIN state.unlockedWorlds :
                         state.unlockedWorlds[i] = state.unlockedWorlds[j]
                             => i = j
                  /\ open = {} => out = state
                  /\ open # {} =>
                         \E w \in open :
                             /\ \A v \in open : w <= v
                             /\ out = [state EXCEPT
                                          !.unlockedWorlds = Append(@, w)])
    /\ [][/\ Len(state'.unlockedWorlds) <= Len(state.unlockedWorlds) + 1
          /\ \A i \in DOMAIN state.unlockedWorlds :
                 /\ i \in DOMAIN state'.unlockedWorlds
                 /\ state'.unlockedWorlds[i] = state.unlockedWorlds[i]]_vars

\* calls have unlocked worlds 1 to 3 one by one and two more can be unlocked
C33_Witness ==
    /\ Running
    /\ state.unlockedWorlds = <<0, 1, 2, 3>>
    /\ Cardinality(Unlockable(state)) >= 2


\* C34: a choice with the effect energyCost or heatCost deducts exactly its
\* cost and applies no penalty where the cost can be paid; otherwise it
\* deducts nothing and applies the penalty, 20% of the highest of heat,
\* fuel, pressure and energy for energyCost and 50% of the pressure for
\* heatCost, rounded down; no resource is negative afterwards
C34_MitigationFallsBack ==
    Running =>
        \A effect \in DOMAIN ChoiceCost :
            LET cost == ChoiceCost[effect]
                before == state.resources
                after == selectEventChoice(state, Store, effect).state.resources
                affordable == \A r \in DOMAIN cost : before[r] >= cost[r]
            IN  /\ IF affordable
                   THEN after = [r \in Resources |->
                                    IF r \in DOMAIN cost
                                    THEN before[r] - cost[r]
                                    ELSE before[r]]
                   ELSE IF effect = "energyCost"
                   THEN \E highest \in {"heat", "fuel", "pressure", "energy"} :
                            /\ \A r \in {"heat", "fuel", "pressure", "energy"} :
                                   before[r] <= before[highest]
                            /\ after = [before EXCEPT
                                           ![highest] = @ - ((@ * 20) \div 100)]
                   ELSE after = [before EXCEPT
                                    !["pressure"] = @ - ((@ * 50) \div 100)]
                /\ \A r \in Resources : after[r] >= 0


\* the generation calls of the game: a click on a generation button, or
\* the generation createWorld runs for the world it has selected
GenerationStep(st, s, t, kind) ==
    IF kind = "world" THEN createWorld(st, s, t, "none")
    ELSE generateResource(st, s, t, kind, "none")

====
